---- MODULE Spec2Model ----
(***************************************************************************)
(* Model of the capability-gated consensus selectors of                    *)
(* polkadot-parachains/src/service.rs (BuildOnAccess, WaitForAuraConsensus,*)
(* Verifier) and of the asset identity resolver of                         *)
(* polkadot-parachains/shell-runtime/src/xcm_config.rs (CurrencyIdConvert).*)
(***************************************************************************)
EXTENDS Integers, Sequences, FiniteSets, TLC

(* ------------------------------ bounds -------------------------------- *)

\* number of parent blocks the calls may name
NumParents == 3

\* number of clones of the production selector that call concurrently
Clones == 2

\* number of calls issued in a run, through both selectors together
MaxCalls == 3

\* parachain ids the local chain may be configured with, beyond the two the
\* runtime names (IntegriteeKsmParaId, ShellRuntimeParaId)
ExtraParaIds == 1

(* --------------------------- service.rs state ------------------------- *)

VARIABLES
    hasAura,       \* runtime state: does the runtime at parent p expose AuraApi
    lazy,          \* the BuildOnAccess value of each selector
    auraHolder,    \* tasks holding the aura_consensus mutex
    relayHolder,   \* tasks holding the relay_chain_consensus mutex
    pc,            \* position of every task in its current call
    probe,         \* outcome of has_api for the task's current (or last) call
    mode,          \* strategy the task's current (or last) call was dispatched to
    used,          \* instance get_mut returned to the task (0: none)
    result,        \* what the task's last completed call returned
    builderCalls,  \* how often the builder closure of each selector was invoked
    built,         \* how many strategy instances each selector's builder returned
    log,           \* dispatches of each selector, in call order
    called         \* the block the Verifier was handed by the last step; None
                   \* after any other step

(* ------------------------- xcm_config.rs state ------------------------ *)

VARIABLES
    selfParaId,    \* ParachainInfo::parachain_id()
    xOp,           \* the conversion applied last
    xId,           \* the CurrencyId the round trip started from
    xLoc,          \* the MultiLocation converted last
    xCur,          \* the Option<CurrencyId> converted last
    xAsset,        \* the MultiAsset converted or resolved last
    xRes           \* the Option<MultiLocation> reserve() returned last

svars == <<hasAura, lazy, auraHolder, relayHolder, pc, probe, mode, used, result,
           builderCalls, built, log, called>>

\* the state the Barrier reads and writes
VARIABLES
    weightCredit,  \* the weight credit handed to Barrier::should_execute
    queries,       \* the queries awaiting a response (PolkadotXcm)
    evaluation     \* the last call of Barrier::should_execute, None before it

bvars == <<weightCredit, queries, evaluation>>

xvars == <<selfParaId, xOp, xId, xLoc, xCur, xAsset, xRes, bvars>>

vars == <<svars, xvars>>

(* ------------------------------ service.rs ---------------------------- *)

\* Option<T>
None == <<>>

Some(v) == <<v>>

\* the blocks whose state the client has, by number: a header's hash is
\* modelled by its number
Parents == 1..NumParents

\* the blocks the import queue hands to the Verifier: each has its parent's
\* state in the client, and not yet its own
Blocks == 2..(NumParents + 1)

\* variant: the block's own hash
OwnHash(header) == header

\* Header::parent_hash()
parent_hash(header) == header - 1

\* Header::hash()
HeaderHash(header) == header

\* the clones of WaitForAuraConsensus, one task each
Producers == 1..Clones

\* the import queue's worker, the single owner of the Verifier
VerifierTask == 0

Tasks == {VerifierTask} \cup Producers

Selectors == {"production", "verification"}

Sel(t) == IF t \in Producers THEN "production" ELSE "verification"

\* enum BuildOnAccess<R> { Uninitialized(Option<Box<dyn FnOnce() -> R>>), Initialized(R) }
Uninitialized(f) == [tag |-> "Uninitialized", f |-> f, r |-> 0]

Initialized(r) == [tag |-> "Initialized", f |-> FALSE, r |-> r]

\* has_api::<dyn AuraApi>(parent): Ok(true), Ok(false) or Err (state unavailable)
HasApi(p, fails) ==
    IF fails \/ p \notin Parents
    THEN "error"
    ELSE IF hasAura[p] THEN "present" ELSE "absent"

\* variant of the default: .unwrap_or(true)
UnwrapOrTrue(outcome) == outcome # "absent"

\* .unwrap_or(false)
UnwrapOrFalse(outcome) == outcome = "present"

\* variant: the two branches exchanged
DispatchSwapped(s, outcome) ==
    IF UnwrapOrFalse(outcome) THEN "Bootstrap" ELSE "Native"

\* variant: no probe result is needed once the Native strategy is built
DispatchCached(s, outcome) ==
    IF lazy[s].tag = "Initialized" \/ UnwrapOrFalse(outcome) THEN "Native" ELSE "Bootstrap"

\* variant: the first Native dispatch decides all later calls
DispatchLatched(s, outcome) ==
    IF UnwrapOrFalse(outcome) \/ \E i \in 1..Len(log[s]) : log[s][i].mode = "Native"
    THEN "Native" ELSE "Bootstrap"

\* the if/else of produce_candidate and verify
Dispatch(s, outcome) ==
    IF UnwrapOrFalse(outcome) THEN "Native" ELSE "Bootstrap"

\* variant: the Native strategy is fetched whatever the branch
EntryPcEager(t, m) ==
    IF t \in Producers THEN "lock_aura" ELSE "get_mut"

\* where a call continues after the branch: the production selector takes the
\* branch's mutex, the verifier owns both strategies and goes straight on
EntryPc(t, m) ==
    IF m = "Native"
    THEN IF t \in Producers THEN "lock_aura" ELSE "get_mut"
    ELSE IF t \in Producers THEN "lock_relay" ELSE "bootstrap"

\* futures::lock::Mutex::lock().await resolves only while nobody holds the mutex
CanLock(holders) == holders = {}

\* variant: the builder is called through a reference and stays in the Option
TakeKeepsBuilder(l) == Uninitialized(TRUE)

\* f.take(): the builder leaves the Option
Take(l) == Uninitialized(FALSE)

\* results a strategy's produce_candidate / verify may return
Outcomes == {"ok", "fail"}

\* calls made so far, through both selectors
CallsIssued == Len(log["production"]) + Len(log["verification"])

\* the probe's outcome selects the strategy, and the call enters its branch
StartCall(t, outcome) ==
    LET s == Sel(t)
        m == Dispatch(s, outcome)
    IN  /\ pc[t] = "idle"
        /\ CallsIssued < MaxCalls
        /\ probe' = [probe EXCEPT ![t] = outcome]
        /\ mode' = [mode EXCEPT ![t] = m]
        /\ used' = [used EXCEPT ![t] = 0]
        /\ result' = [result EXCEPT ![t] = "none"]
        /\ log' = [log EXCEPT ![s] = Append(@, [probe |-> outcome, mode |-> m])]
        /\ pc' = [pc EXCEPT ![t] = EntryPc(t, m)]
        /\ UNCHANGED <<xvars, hasAura, lazy, auraHolder, relayHolder, builderCalls, built>>

\* WaitForAuraConsensus::produce_candidate, up to the branch
ProduceCandidate(t, p, fails) ==
    /\ t \in Producers
    /\ StartCall(t, HasApi(HeaderHash(p), fails))
    /\ called' = None

\* Verifier::verify, up to the branch
Verify(b, fails) ==
    /\ b \in Blocks
    /\ StartCall(VerifierTask, HasApi(parent_hash(b), fails))
    /\ called' = Some(b)

\* self.aura_consensus.lock().await
LockAura(t) ==
    /\ pc[t] = "lock_aura"
    /\ CanLock(auraHolder)
    /\ auraHolder' = auraHolder \cup {t}
    /\ pc' = [pc EXCEPT ![t] = "get_mut"]
    /\ called' = None
    /\ UNCHANGED <<xvars, hasAura, lazy, relayHolder, probe, mode, used, result,
                   builderCalls, built, log>>

\* variant: one Mutex guards both strategies
LockRelayUnderAura(t) ==
    /\ pc[t] = "lock_relay"
    /\ CanLock(relayHolder \cup auraHolder)
    /\ relayHolder' = relayHolder \cup {t}
    /\ pc' = [pc EXCEPT ![t] = "bootstrap"]
    /\ called' = None
    /\ UNCHANGED <<xvars, hasAura, lazy, auraHolder, probe, mode, used, result,
                   builderCalls, built, log>>

\* self.relay_chain_consensus.lock().await
LockRelay(t) ==
    /\ pc[t] = "lock_relay"
    /\ CanLock(relayHolder)
    /\ relayHolder' = relayHolder \cup {t}
    /\ pc' = [pc EXCEPT ![t] = "bootstrap"]
    /\ called' = None
    /\ UNCHANGED <<xvars, hasAura, lazy, auraHolder, probe, mode, used, result,
                   builderCalls, built, log>>

\* variant: the MutexGuard is dropped once the value is found Initialized
GetMutInitializedDropsGuard(t) ==
    /\ pc[t] = "get_mut"
    /\ lazy[Sel(t)].tag = "Initialized"
    /\ used' = [used EXCEPT ![t] = lazy[Sel(t)].r]
    /\ pc' = [pc EXCEPT ![t] = "native"]
    /\ auraHolder' = auraHolder \ {t}
    /\ called' = None
    /\ UNCHANGED <<xvars, hasAura, lazy, relayHolder, probe, mode, result,
                   builderCalls, built, log>>

\* get_mut, match arm Initialized(ref mut r) => return r
GetMutInitialized(t) ==
    /\ pc[t] = "get_mut"
    /\ lazy[Sel(t)].tag = "Initialized"
    /\ used' = [used EXCEPT ![t] = lazy[Sel(t)].r]
    /\ pc' = [pc EXCEPT ![t] = "native"]
    /\ called' = None
    /\ UNCHANGED <<xvars, hasAura, lazy, auraHolder, relayHolder, probe, mode, result,
                   builderCalls, built, log>>

\* get_mut, match arm Uninitialized(f): f.take().unwrap() yields the builder,
\* which is then invoked
GetMutTakeBuilder(t) ==
    /\ pc[t] = "get_mut"
    /\ lazy[Sel(t)].tag = "Uninitialized"
    /\ lazy[Sel(t)].f
    /\ lazy' = [lazy EXCEPT ![Sel(t)] = Take(@)]
    /\ builderCalls' = [builderCalls EXCEPT ![Sel(t)] = @ + 1]
    /\ pc' = [pc EXCEPT ![t] = "building"]
    /\ called' = None
    /\ UNCHANGED <<xvars, hasAura, auraHolder, relayHolder, probe, mode, used, result,
                   built, log>>

\* get_mut, match arm Uninitialized(f) with f = None: unwrap() panics; the
\* unwinding drops the MutexGuard
GetMutNoBuilder(t) ==
    /\ pc[t] = "get_mut"
    /\ lazy[Sel(t)].tag = "Uninitialized"
    /\ ~lazy[Sel(t)].f
    /\ pc' = [pc EXCEPT ![t] = "panicked"]
    /\ auraHolder' = auraHolder \ {t}
    /\ called' = None
    /\ UNCHANGED <<xvars, hasAura, lazy, relayHolder, probe, mode, used, result,
                   builderCalls, built, log>>

\* variant: the builder's result is dropped instead of stored in *self
BuilderReturnsWithoutStore(t) ==
    /\ pc[t] = "building"
    /\ built' = [built EXCEPT ![Sel(t)] = @ + 1]
    /\ pc' = [pc EXCEPT ![t] = "get_mut"]
    /\ called' = None
    /\ UNCHANGED <<xvars, hasAura, lazy, auraHolder, relayHolder, probe, mode, used,
                   result, builderCalls, log>>

\* the builder returns: *self = Self::Initialized(..), and the loop runs again
BuilderReturns(t) ==
    /\ pc[t] = "building"
    /\ built' = [built EXCEPT ![Sel(t)] = @ + 1]
    /\ lazy' = [lazy EXCEPT ![Sel(t)] = Initialized(built[Sel(t)] + 1)]
    /\ pc' = [pc EXCEPT ![t] = "get_mut"]
    /\ called' = None
    /\ UNCHANGED <<xvars, hasAura, auraHolder, relayHolder, probe, mode, used, result,
                   builderCalls, log>>

\* the builder panics (slot_duration(..).unwrap()): the assignment to *self is
\* never made and the unwinding drops the MutexGuard
BuilderPanics(t) ==
    /\ pc[t] = "building"
    /\ pc' = [pc EXCEPT ![t] = "panicked"]
    /\ auraHolder' = auraHolder \ {t}
    /\ called' = None
    /\ UNCHANGED <<xvars, hasAura, lazy, relayHolder, probe, mode, used, result,
                   builderCalls, built, log>>

\* variant: the MutexGuard outlives the call
NativeCompletesKeepsGuard(t, out) ==
    /\ pc[t] = "native"
    /\ result' = [result EXCEPT ![t] = out]
    /\ pc' = [pc EXCEPT ![t] = "idle"]
    /\ called' = None
    /\ UNCHANGED <<xvars, hasAura, lazy, auraHolder, relayHolder, probe, mode, used,
                   builderCalls, built, log>>

\* the Native strategy's produce_candidate / verify completes; the MutexGuard
\* is dropped at the end of the call
NativeCompletes(t, out) ==
    /\ pc[t] = "native"
    /\ result' = [result EXCEPT ![t] = out]
    /\ pc' = [pc EXCEPT ![t] = "idle"]
    /\ auraHolder' = auraHolder \ {t}
    /\ called' = None
    /\ UNCHANGED <<xvars, hasAura, lazy, relayHolder, probe, mode, used, builderCalls,
                   built, log>>

\* the Bootstrap strategy's produce_candidate / verify completes
BootstrapCompletes(t, out) ==
    /\ pc[t] = "bootstrap"
    /\ result' = [result EXCEPT ![t] = out]
    /\ pc' = [pc EXCEPT ![t] = "idle"]
    /\ relayHolder' = relayHolder \ {t}
    /\ called' = None
    /\ UNCHANGED <<xvars, hasAura, lazy, auraHolder, probe, mode, used, builderCalls,
                   built, log>>

(* ----------------------------- xcm_config.rs -------------------------- *)

\* parameter_types! { IntegriteeKsmParaId, ShellRuntimeParaId }
IntegriteeKsmParaId == 2015

ShellRuntimeParaId == 2267

\* values ParachainInfo::parachain_id() may have
ParaIds == {IntegriteeKsmParaId, ShellRuntimeParaId} \cup (1..ExtraParaIds)

\* largest `parents` of the locations converted
MaxParents == 2

\* largest number of junctions of the locations converted
MaxJunctions == 2

\* enum CurrencyId { TEER }
CurrencyIds == {"TEER"}

\* 32-byte key data: b"TEER0000000000000000000000000000" (ASCII zeros), the
\* same four letters padded with zero bytes, and another asset's key
TEER_KEY == "TEER0000000000000000000000000000"

KeyData == {TEER_KEY, "TEER", "KSM"}

KeyLengths == {4, 32}

\* Junction::Parachain(id), Junction::GeneralKey { length, data },
\* Junction::AccountId32 { .. }
Parachain(id) == [kind |-> "Parachain", id |-> id, length |-> 0, data |-> ""]

GeneralKey(length, data) ==
    [kind |-> "GeneralKey", id |-> 0, length |-> length, data |-> data]

AccountId32 == [kind |-> "AccountId32", id |-> 0, length |-> 0, data |-> ""]

Junctions ==
    {Parachain(id) : id \in ParaIds}
        \cup {GeneralKey(n, d) : n \in KeyLengths, d \in KeyData}
        \cup {AccountId32}

\* const fn teer_general_key() -> Junction
teer_general_key == GeneralKey(4, TEER_KEY)

TEER_GENERAL_KEY == teer_general_key

\* MultiLocation { parents, interior }
MultiLocation(parents, interior) == [parents |-> parents, interior |-> interior]

Interiors == UNION {[1..n -> Junctions] : n \in 0..MaxJunctions}

MultiLocations == {MultiLocation(p, i) : p \in 0..MaxParents, i \in Interiors}

\* variant: the para id is the constant ShellRuntimeParaId
CurrencyIdToLocationFixedPara(id) ==
    Some(MultiLocation(1, <<Parachain(ShellRuntimeParaId), TEER_GENERAL_KEY>>))

\* impl Convert<CurrencyId, Option<MultiLocation>> for CurrencyIdConvert
CurrencyIdToLocation(id) ==
    CASE id = "TEER" ->
        Some(MultiLocation(1, <<Parachain(selfParaId), TEER_GENERAL_KEY>>))

\* variant: the guard para_id == self_para_id is missing
LocationToCurrencyIdAnyPara(location) ==
    LET interior == location.interior
    IN  IF location.parents = 1
        THEN IF /\ Len(interior) = 2
                /\ interior[1].kind = "Parachain"
                /\ interior[2] = TEER_GENERAL_KEY
             THEN Some("TEER")
             ELSE None
        ELSE IF location.parents = 0
        THEN IF Len(interior) = 1 /\ interior[1] = TEER_GENERAL_KEY
             THEN Some("TEER")
             ELSE None
        ELSE None

\* variant: the key is looked for at the end of the interior, whatever `parents`
LocationToCurrencyIdLastKey(location) ==
    LET interior == location.interior
    IN  IF /\ Len(interior) = 2
           /\ interior[1] = Parachain(selfParaId)
           /\ interior[2] = TEER_GENERAL_KEY
        THEN Some("TEER")
        ELSE IF Len(interior) = 1 /\ interior[1] = TEER_GENERAL_KEY
        THEN Some("TEER")
        ELSE None

\* impl Convert<MultiLocation, Option<CurrencyId>> for CurrencyIdConvert
LocationToCurrencyId(location) ==
    LET self_para_id == selfParaId
        interior == location.interior
    IN  IF location.parents = 1
        THEN IF /\ Len(interior) = 2
                /\ interior[1].kind = "Parachain"
                /\ interior[2] = TEER_GENERAL_KEY
                /\ interior[1].id = self_para_id
             THEN Some("TEER")
             ELSE None
        ELSE IF location.parents = 0
        THEN IF Len(interior) = 1 /\ interior[1] = TEER_GENERAL_KEY
             THEN Some("TEER")
             ELSE None
        ELSE None

\* CurrencyIdConvert::convert(id: CurrencyId)
ConvertCurrencyId(id) ==
    /\ xOp = "none"
    /\ xOp' = "to_location"
    /\ xId' = Some(id)
    /\ xLoc' = CurrencyIdToLocation(id)
    /\ xCur' = None
    /\ UNCHANGED <<svars, bvars, selfParaId, xAsset, xRes>>

\* CurrencyIdConvert::convert(location: MultiLocation)
ConvertLocation(location) ==
    /\ xOp = "none"
    /\ xOp' = "to_currency"
    /\ xId' = None
    /\ xLoc' = Some(location)
    /\ xCur' = LocationToCurrencyId(location)
    /\ UNCHANGED <<svars, bvars, selfParaId, xAsset, xRes>>

\* CurrencyIdConvert::convert applied to the location the CurrencyId gave
ConvertBack ==
    /\ xOp = "to_location"
    /\ xLoc # None
    /\ xOp' = "round_trip"
    /\ xCur' = LocationToCurrencyId(xLoc[1])
    /\ UNCHANGED <<svars, bvars, selfParaId, xId, xLoc, xAsset, xRes>>

\* AssetId::Concrete(location), AssetId::Abstract(key)
Concrete(location) == [kind |-> "Concrete", location |-> location, key |-> ""]

Abstract(key) == [kind |-> "Abstract", location |-> <<>>, key |-> key]

AssetIds == {Concrete(l) : l \in MultiLocations} \cup {Abstract(TEER_KEY)}

\* Fungibility::Fungible(amount), Fungibility::NonFungible(instance)
Fungible(amount) == [kind |-> "Fungible", amount |-> amount]

NonFungible == [kind |-> "NonFungible", amount |-> 0]

Fungibilities == {Fungible(1), Fungible(1000), NonFungible}

\* MultiAsset { id, fun }
MultiAsset(id, fun) == [id |-> id, fun |-> fun]

MultiAssets == {MultiAsset(id, fun) : id \in AssetIds, fun \in Fungibilities}

\* variant: only fungible assets are looked up
AssetToCurrencyIdFungibleOnly(asset) ==
    IF asset.id.kind = "Concrete" /\ asset.fun.kind = "Fungible"
    THEN LocationToCurrencyId(asset.id.location)
    ELSE None

\* impl Convert<MultiAsset, Option<CurrencyId>> for CurrencyIdConvert
AssetToCurrencyId(asset) ==
    IF asset.id.kind = "Concrete"
    THEN LocationToCurrencyId(asset.id.location)
    ELSE None

\* CurrencyIdConvert::convert(asset: MultiAsset)
ConvertAsset(asset) ==
    /\ xOp = "none"
    /\ xOp' = "asset_to_currency"
    /\ xAsset' = Some(asset)
    /\ xCur' = AssetToCurrencyId(asset)
    /\ UNCHANGED <<svars, bvars, selfParaId, xId, xLoc, xRes>>

\* MultiLocation::here()
Here == MultiLocation(0, <<>>)

\* MultiLocation::parent()
ParentLocation == MultiLocation(1, <<>>)

\* pub SelfLocation: MultiLocation = MultiLocation::here()
SelfLocation == Here

\* pub SelfLocationAbsolute: MultiLocation =
\*     MultiLocation { parents: 1, interior: X1(Parachain(parachain_id)) }
SelfLocationAbsolute == MultiLocation(1, <<Parachain(selfParaId)>>)

\* MultiLocation::first_interior()
FirstInterior(location) ==
    IF Len(location.interior) = 0 THEN None ELSE Some(location.interior[1])

\* is the first junction a chain junction (a Parachain)
IsChainJunction(junction) ==
    junction # None /\ junction[1].kind = "Parachain"

\* the chain part of a location: a sibling parachain, the parent, or a child
\* parachain; None for anything else
ChainPart(location) ==
    LET first == FirstInterior(location)
    IN  IF location.parents = 1 /\ IsChainJunction(first)
        THEN Some(MultiLocation(1, <<Parachain(first[1].id)>>))
        ELSE IF location.parents = 1
        THEN Some(ParentLocation)
        ELSE IF location.parents = 0 /\ IsChainJunction(first)
        THEN Some(MultiLocation(0, <<Parachain(first[1].id)>>))
        ELSE None

\* RelativeReserveProvider::reserve(asset): the reserve of a concrete asset
\* seen from the local chain; a location below the local chain that names no
\* chain is held locally
RelativeReserve(asset) ==
    IF asset.id.kind = "Concrete"
    THEN LET location == asset.id.location
         IN  IF location.parents = 0 /\ ~IsChainJunction(FirstInterior(location))
             THEN Some(Here)
             ELSE ChainPart(location)
    ELSE None

\* variant: the relative reserve is compared with SelfLocation
CanonicalizeAgainstSelfLocation(relative_reserve) ==
    IF relative_reserve = SelfLocation THEN Here ELSE relative_reserve

\* variant: every parachain's chain location is taken for the local chain's
CanonicalizeAnyParachain(relative_reserve) ==
    IF /\ relative_reserve.parents = 1
       /\ Len(relative_reserve.interior) = 1
       /\ relative_reserve.interior[1].kind = "Parachain"
    THEN Here
    ELSE relative_reserve

\* the closure of AbsoluteAndRelativeReserve::reserve
Canonicalize(relative_reserve) ==
    IF relative_reserve = SelfLocationAbsolute THEN Here ELSE relative_reserve

\* impl Reserve for AbsoluteAndRelativeReserve<AbsoluteMultiLocation>
Reserve(asset) ==
    LET relative_reserve == RelativeReserve(asset)
    IN  IF relative_reserve = None
        THEN None
        ELSE Some(Canonicalize(relative_reserve[1]))

\* AbsoluteAndRelativeReserve::<SelfLocationAbsolute>::reserve(&asset)
ReserveAsset(asset) ==
    /\ xOp = "none"
    /\ xOp' = "reserve"
    /\ xAsset' = Some(asset)
    /\ xRes' = Reserve(asset)
    /\ UNCHANGED <<svars, bvars, selfParaId, xId, xLoc, xCur>>

\* AbsoluteAndRelativeReserve::reserve(&asset) for the asset CurrencyIdConvert
\* was just asked about
ReserveOfConverted ==
    /\ xOp = "asset_to_currency"
    /\ xAsset # None
    /\ xOp' = "asset_and_reserve"
    /\ xRes' = Reserve(xAsset[1])
    /\ UNCHANGED <<svars, bvars, selfParaId, xId, xLoc, xCur, xAsset>>

\* the closure of reserve applied to a location reserve returned
Recanonicalize ==
    /\ xOp = "reserve"
    /\ xRes # None
    /\ xOp' = "recanonicalized"
    /\ xRes' = Some(Canonicalize(xRes[1]))
    /\ UNCHANGED <<svars, bvars, selfParaId, xId, xLoc, xCur, xAsset>>

(* ------------------------------ Barrier ------------------------------- *)

\* largest number of instructions of the messages evaluated
MaxMessageLen == 3

\* largest weight credit, counted in UnitWeightCost
MaxCredit == 2

\* pub const DEFAULT_PROOF_SIZE: u64 = 128 * 1024
DEFAULT_PROOF_SIZE == 128 * 1024

\* Weight::from_parts(ref_time, proof_size)
Weight(ref_time, proof_size) == [ref_time |-> ref_time, proof_size |-> proof_size]

\* pub UnitWeightCost: Weight = Weight::from_parts(200_000_000u64, DEFAULT_PROOF_SIZE)
UnitWeightCost == Weight(200000000, DEFAULT_PROOF_SIZE)

\* Weight::saturating_mul(n), far from saturation
Times(weight, n) == Weight(weight.ref_time * n, weight.proof_size * n)

\* Weight::checked_sub: None when either component would go below zero
CheckedSub(a, b) ==
    IF a.ref_time >= b.ref_time /\ a.proof_size >= b.proof_size
    THEN Some(Weight(a.ref_time - b.ref_time, a.proof_size - b.proof_size))
    ELSE None

\* Weight::all_gte
AllGte(a, b) == a.ref_time >= b.ref_time /\ a.proof_size >= b.proof_size

\* the credits a call starts with: whole multiples of UnitWeightCost, and one
\* with ref_time to spare and no proof_size
Credits ==
    {Times(UnitWeightCost, k) : k \in 0..MaxCredit}
        \cup {Weight(UnitWeightCost.ref_time * MaxCredit, 0)}

\* a sibling parachain, seen from the local chain
Sibling == MultiLocation(1, <<Parachain(IntegriteeKsmParaId)>>)

\* the origins messages arrive from
Origins == {ParentLocation, Sibling}

\* WeightLimit::Unlimited, WeightLimit::Limited(weight)
Unlimited == [kind |-> "Unlimited", weight |-> Weight(0, 0)]

Limited(weight) == [kind |-> "Limited", weight |-> weight]

WeightLimits ==
    {Unlimited, Limited(UnitWeightCost), Limited(Times(UnitWeightCost, MaxMessageLen + 1))}

\* Instruction: the fields the barriers read (dest is also the reserve of
\* InitiateReserveWithdraw), Here where an instruction has none
Instruction(kind, dest, weight_limit, query_id) ==
    [kind |-> kind, dest |-> dest, weight_limit |-> weight_limit, query_id |-> query_id]

Plain(kind) == Instruction(kind, Here, Unlimited, 0)

BuyExecution(weight_limit) == Instruction("BuyExecution", Here, weight_limit, 0)

QueryResponse(query_id) == Instruction("QueryResponse", Here, Unlimited, query_id)

InitiateReserveWithdraw(reserve) ==
    Instruction("InitiateReserveWithdraw", reserve, Unlimited, 0)

DepositReserveAsset(dest) == Instruction("DepositReserveAsset", dest, Unlimited, 0)

TransferReserveAsset(dest) == Instruction("TransferReserveAsset", dest, Unlimited, 0)

Instructions ==
    {Plain(k) : k \in {"WithdrawAsset", "ReserveAssetDeposited", "ClearOrigin",
                       "DepositAsset", "SubscribeVersion", "UnsubscribeVersion"}}
        \cup {BuyExecution(l) : l \in WeightLimits}
        \cup {QueryResponse(1)}
        \cup {DepositReserveAsset(d) : d \in {ParentLocation, Sibling}}
        \cup {InitiateReserveWithdraw(ParentLocation), TransferReserveAsset(ParentLocation)}

\* Xcm(Vec<Instruction>)
Messages == UNION {[1..n -> Instructions] : n \in 0..MaxMessageLen}

\* a query awaiting its response from `responder`
Query(id, responder) == [id |-> id, responder |-> responder]

QuerySets == {{}, {Query(1, ParentLocation)}}

\* variant: one UnitWeightCost for the message, whatever its length
WeighFlat(message) == UnitWeightCost

\* type Weigher = FixedWeightBounds<UnitWeightCost, RuntimeCall, MaxInstructions>:
\* each instruction weighs UnitWeightCost
Weigh(message) == Times(UnitWeightCost, Len(message))

\* the arguments of ShouldExecute::should_execute and the state it may touch:
\* origin, instructions (&mut), max_weight, weight_credit (&mut), the pending
\* queries; ok is the Result and trace lists the barriers run so far, each
\* with what it returned and left behind
Context(origin, instructions, max_weight, weight_credit, pending) ==
    [origin |-> origin, instructions |-> instructions, max_weight |-> max_weight,
     weight_credit |-> weight_credit, queries |-> pending, ok |-> FALSE,
     trace |-> <<>>]

\* a barrier returns: Ok(()) or Err(()) with the state it leaves
Returns(barrier, ok, ctx) ==
    [ctx EXCEPT !.ok = ok,
                !.trace = Append(@, [barrier |-> barrier, ok |-> ok,
                                     weight_credit |-> ctx.weight_credit,
                                     queries |-> ctx.queries,
                                     instructions |-> ctx.instructions])]

\* DenyReserveTransferToRelayChain: Err for a message with a reserve transfer
\* whose reserve or destination is the parent
DenyReserveTransferToRelayChain(ctx) ==
    LET to_relay(inst) ==
            /\ inst.kind \in {"InitiateReserveWithdraw", "DepositReserveAsset",
                              "TransferReserveAsset"}
            /\ inst.dest = ParentLocation
        denied == \E i \in 1..Len(ctx.instructions) : to_relay(ctx.instructions[i])
    IN  Returns("DenyReserveTransferToRelayChain", ~denied, ctx)

\* TakeWeightCredit: *weight_credit = weight_credit.checked_sub(&max_weight).ok_or(())?
TakeWeightCredit(ctx) ==
    LET left == CheckedSub(ctx.weight_credit, ctx.max_weight)
    IN  IF left = None
        THEN Returns("TakeWeightCredit", FALSE, ctx)
        ELSE Returns("TakeWeightCredit", TRUE, [ctx EXCEPT !.weight_credit = left[1]])

\* AllowTopLevelPaidExecutionFrom<Everything>: among the first five
\* instructions, one that takes assets in, then any number of ClearOrigin,
\* then a BuyExecution whose limit covers max_weight; the limit is set to
\* max_weight
AllowTopLevelPaidExecutionFrom(ctx) ==
    LET name == "AllowTopLevelPaidExecutionFrom"
        instructions == ctx.instructions
        end == IF Len(instructions) < 5 THEN Len(instructions) ELSE 5
        after == {i \in 2..end : instructions[i].kind # "ClearOrigin"}
    IN  IF end = 0 \/ instructions[1].kind \notin
                        {"ReceiveTeleportedAsset", "WithdrawAsset",
                         "ReserveAssetDeposited", "ClaimAsset"}
        THEN Returns(name, FALSE, ctx)
        ELSE IF after = {}
        THEN Returns(name, FALSE, ctx)
        ELSE LET i == CHOOSE j \in after : \A k \in after : j <= k
                 inst == instructions[i]
             IN  IF /\ inst.kind = "BuyExecution"
                    /\ \/ inst.weight_limit = Unlimited
                       \/ /\ inst.weight_limit.kind = "Limited"
                          /\ AllGte(inst.weight_limit.weight, ctx.max_weight)
                 THEN Returns(name, TRUE,
                              [ctx EXCEPT !.instructions[i].weight_limit =
                                              Limited(ctx.max_weight)])
                 ELSE Returns(name, FALSE, ctx)

\* ResponseHandler::expecting_response (PolkadotXcm): the query is pending
\* and its responder is the origin
ExpectingResponse(origin, query_id, pending) ==
    \E q \in pending : q.id = query_id /\ q.responder = origin

\* AllowKnownQueryResponses<PolkadotXcm>: the first instruction is a
\* QueryResponse the chain expects
AllowKnownQueryResponses(ctx) ==
    Returns("AllowKnownQueryResponses",
            /\ Len(ctx.instructions) > 0
            /\ ctx.instructions[1].kind = "QueryResponse"
            /\ ExpectingResponse(ctx.origin, ctx.instructions[1].query_id, ctx.queries),
            ctx)

\* AllowSubscriptionsFrom<Everything>: the message is one SubscribeVersion or
\* one UnsubscribeVersion
AllowSubscriptionsFrom(ctx) ==
    Returns("AllowSubscriptionsFrom",
            /\ Len(ctx.instructions) = 1
            /\ ctx.instructions[1].kind \in {"SubscribeVersion", "UnsubscribeVersion"},
            ctx)

\* DenyThenTry<Deny, Allow>: Deny::should_execute(..)?; Allow::should_execute(..)
\* `denied` is what Deny returned, `allowed` what Allow returns when asked next
DenyThenTry(denied, allowed) == IF denied.ok THEN allowed ELSE denied

\* impl ShouldExecute for a tuple: the first Ok(()) is returned; `rest` is what
\* the barriers after the first return when asked next
OrElse(first, rest) == IF first.ok THEN first ELSE rest

\* the tuple of Barrier: (TakeWeightCredit, AllowTopLevelPaidExecutionFrom<Everything>,
\* AllowKnownQueryResponses<PolkadotXcm>, AllowSubscriptionsFrom<Everything>)
AllowList(ctx) ==
    LET credit == TakeWeightCredit(ctx)
        paid == AllowTopLevelPaidExecutionFrom(credit)
        response == AllowKnownQueryResponses(paid)
        subscription == AllowSubscriptionsFrom(response)
    IN  OrElse(credit, OrElse(paid, OrElse(response, subscription)))

\* variant: the tuple alone, without DenyThenTry
BarrierWithoutDeny(ctx) == AllowList(ctx)

\* variant: AllowTopLevelPaidExecutionFrom is missing from the tuple
BarrierWithoutPaidExecution(ctx) ==
    LET denied == DenyReserveTransferToRelayChain(ctx)
        credit == TakeWeightCredit(denied)
        response == AllowKnownQueryResponses(credit)
        subscription == AllowSubscriptionsFrom(response)
    IN  DenyThenTry(denied, OrElse(credit, OrElse(response, subscription)))

\* variant: AllowTopLevelPaidExecutionFrom comes before TakeWeightCredit
BarrierPaidExecutionFirst(ctx) ==
    LET denied == DenyReserveTransferToRelayChain(ctx)
        paid == AllowTopLevelPaidExecutionFrom(denied)
        credit == TakeWeightCredit(paid)
        response == AllowKnownQueryResponses(credit)
        subscription == AllowSubscriptionsFrom(response)
    IN  DenyThenTry(denied, OrElse(paid, OrElse(credit, OrElse(response, subscription))))

\* variant: the tuple is tried first and the deny barrier is asked afterwards
BarrierTryThenDeny(ctx) ==
    LET allowed == AllowList(ctx)
    IN  IF allowed.ok THEN DenyReserveTransferToRelayChain(allowed) ELSE allowed

\* pub type Barrier = DenyThenTry<DenyReserveTransferToRelayChain, (..)>
Barrier(ctx) ==
    LET denied == DenyReserveTransferToRelayChain(ctx)
    IN  DenyThenTry(denied, AllowList(denied))

\* the executor asks the Barrier about a message of `origin`:
\* Barrier::should_execute(&origin, &mut instructions, max_weight, &mut weight_credit)
ShouldExecute ==
    /\ evaluation = None
    /\ \E origin \in Origins, message \in Messages :
           LET max_weight == Weigh(message)
               out == Barrier(Context(origin, message, max_weight, weightCredit, queries))
           IN  /\ weightCredit' = out.weight_credit
               /\ queries' = out.queries
               /\ evaluation' = Some([origin |-> origin, message |-> message,
                                      max_weight |-> max_weight,
                                      credit_before |-> weightCredit,
                                      queries_before |-> queries,
                                      ok |-> out.ok, trace |-> out.trace,
                                      instructions |-> out.instructions,
                                      again |-> FALSE])
    /\ UNCHANGED <<svars, selfParaId, xOp, xId, xLoc, xCur, xAsset, xRes>>

\* a message that was admitted arrives from the same origin once more and the
\* Barrier is asked with the weight credit the admissions before have left
ShouldExecuteAgain ==
    /\ evaluation # None
    /\ evaluation[1].ok
    /\ LET origin == evaluation[1].origin
           message == evaluation[1].message
           max_weight == Weigh(message)
           out == Barrier(Context(origin, message, max_weight, weightCredit, queries))
       IN  /\ weightCredit' = out.weight_credit
           /\ queries' = out.queries
           /\ evaluation' = Some([origin |-> origin, message |-> message,
                                  max_weight |-> max_weight,
                                  credit_before |-> weightCredit,
                                  queries_before |-> queries,
                                  ok |-> out.ok, trace |-> out.trace,
                                  instructions |-> out.instructions,
                                  again |-> TRUE])
    /\ UNCHANGED <<svars, selfParaId, xOp, xId, xLoc, xCur, xAsset, xRes>>

(* --------------------------- specifications --------------------------- *)

\* the runtime gains AuraApi at some block and keeps it: parents are numbered
\* in chain order
ServiceInit ==
    /\ \E upgradeAt \in 1..(NumParents + 1) :
          hasAura = [p \in Parents |-> p >= upgradeAt]
    /\ lazy = [s \in Selectors |-> Uninitialized(TRUE)]
    /\ auraHolder = {}
    /\ relayHolder = {}
    /\ pc = [t \in Tasks |-> "idle"]
    /\ probe = [t \in Tasks |-> "none"]
    /\ mode = [t \in Tasks |-> "none"]
    /\ used = [t \in Tasks |-> 0]
    /\ result = [t \in Tasks |-> "none"]
    /\ builderCalls = [s \in Selectors |-> 0]
    /\ built = [s \in Selectors |-> 0]
    /\ log = [s \in Selectors |-> <<>>]
    /\ called = None

XcmInit ==
    /\ xOp = "none"
    /\ xId = None
    /\ xLoc = None
    /\ xCur = None
    /\ xAsset = None
    /\ xRes = None

\* no message has been put to the Barrier
BarrierIdle ==
    /\ weightCredit = Weight(0, 0)
    /\ queries = {}
    /\ evaluation = None

\* the node of the shell runtime's chain
Init ==
    /\ ServiceInit
    /\ XcmInit
    /\ BarrierIdle
    /\ selfParaId = ShellRuntimeParaId

\* the resolver on a chain of any para id; the node's selectors are at rest,
\* on a chain that has not been upgraded
XcmSpecInit ==
    /\ ServiceInit
    /\ \A p \in Parents : ~hasAura[p]
    /\ XcmInit
    /\ BarrierIdle
    /\ selfParaId \in ParaIds

\* the Barrier of the shell runtime's chain, before a message with any weight
\* credit and with or without a query out to the relay chain
BarrierInit ==
    /\ ServiceInit
    /\ \A p \in Parents : ~hasAura[p]
    /\ XcmInit
    /\ selfParaId = ShellRuntimeParaId
    /\ weightCredit \in Credits
    /\ queries \in QuerySets
    /\ evaluation = None

Next ==
    \/ \E t \in Producers, p \in Parents, fails \in BOOLEAN : ProduceCandidate(t, p, fails)
    \/ \E b \in Blocks, fails \in BOOLEAN : Verify(b, fails)
    \/ \E t \in Producers : LockAura(t)
    \/ \E t \in Producers : LockRelay(t)
    \/ \E t \in Tasks : GetMutInitialized(t)
    \/ \E t \in Tasks : GetMutTakeBuilder(t)
    \/ \E t \in Tasks : GetMutNoBuilder(t)
    \/ \E t \in Tasks : BuilderReturns(t)
    \/ \E t \in Tasks : BuilderPanics(t)
    \/ \E t \in Tasks, out \in Outcomes : NativeCompletes(t, out)
    \/ \E t \in Tasks, out \in Outcomes : BootstrapCompletes(t, out)

\* a conversion is asked of a resolver at rest: the guard of the conversions,
\* put before their arguments are drawn
XcmNext ==
    \/ xOp = "none" /\ \E id \in CurrencyIds : ConvertCurrencyId(id)
    \/ xOp = "none" /\ \E location \in MultiLocations : ConvertLocation(location)
    \/ ConvertBack
    \/ xOp = "none" /\ \E asset \in MultiAssets : ConvertAsset(asset)
    \/ xOp = "none" /\ \E asset \in MultiAssets : ReserveAsset(asset)
    \/ Recanonicalize
    \/ ReserveOfConverted

\* the steps of the clones of WaitForAuraConsensus
ProductionNext ==
    \/ \E t \in Producers, p \in Parents, fails \in BOOLEAN : ProduceCandidate(t, p, fails)
    \/ \E t \in Producers : LockAura(t)
    \/ \E t \in Producers : LockRelay(t)
    \/ \E t \in Producers : GetMutInitialized(t)
    \/ \E t \in Producers : GetMutTakeBuilder(t)
    \/ \E t \in Producers : GetMutNoBuilder(t)
    \/ \E t \in Producers : BuilderReturns(t)
    \/ \E t \in Producers : BuilderPanics(t)
    \/ \E t \in Producers, out \in Outcomes : NativeCompletes(t, out)
    \/ \E t \in Producers, out \in Outcomes : BootstrapCompletes(t, out)

\* a call that has entered a branch runs on: the mutex is granted to a waiter
\* that finds it free again and again (futures::lock::Mutex wakes its waiters),
\* get_mut takes its match arm, the builder returns or panics, and the
\* strategy's produce_candidate completes
ProductionFairness ==
    \A t \in Producers :
        /\ SF_vars(LockAura(t))
        /\ WF_vars(GetMutInitialized(t) \/ GetMutTakeBuilder(t) \/ GetMutNoBuilder(t))
        /\ WF_vars(BuilderReturns(t) \/ BuilderPanics(t))
        /\ WF_vars(\E out \in Outcomes : NativeCompletes(t, out))

BarrierNext ==
    \/ ShouldExecute
    \/ ShouldExecuteAgain

Spec == Init /\ [][Next]_vars

BarrierSpec == BarrierInit /\ [][BarrierNext]_vars

\* the node on a chain whose runtime gained AuraApi at its second block: both
\* branches can be taken
UpgradedInit ==
    /\ Init
    /\ ~hasAura[1]
    /\ \A p \in Parents \ {1} : hasAura[p]

FairProductionSpec == UpgradedInit /\ [][ProductionNext]_vars /\ ProductionFairness

XcmSpec == XcmSpecInit /\ [][XcmNext]_vars

(* ------------------------- dispatch properties ------------------------ *)

Entry(probeOutcome, m) == [probe |-> probeOutcome, mode |-> m]

\* the task has been through the first match of get_mut in its Native call
PastFirstMatch(t) ==
    mode[t] = "Native" /\ pc[t] \in {"building", "native", "panicked", "idle"}

\* C1: a call is dispatched to Native if and only if its own probe reported the
\* capability present, and to Bootstrap otherwise; three successive calls whose
\* probes report absent, absent, present are dispatched Bootstrap, Bootstrap,
\* Native in that order.
C1_DispatchFollowsProbe ==
    /\ \A t \in Tasks :
          mode[t] # "none" =>
              /\ mode[t] = "Native" <=> probe[t] = "present"
              /\ mode[t] = "Bootstrap" <=> probe[t] \in {"absent", "error"}
    /\ \A s \in Selectors : \A i \in 1..Len(log[s]) :
          (/\ i + 2 <= Len(log[s])
           /\ log[s][i].probe = "absent"
           /\ log[s][i + 1].probe = "absent"
           /\ log[s][i + 2].probe = "present")
              => /\ log[s][i].mode = "Bootstrap"
                 /\ log[s][i + 1].mode = "Bootstrap"
                 /\ log[s][i + 2].mode = "Native"

\* the verifier has seen parents 1, 2 without and 3 with the capability
C1_Witness ==
    /\ hasAura = [p \in Parents |-> p >= 3]
    /\ log["verification"] = <<Entry("absent", "Bootstrap"), Entry("absent", "Bootstrap"),
                               Entry("present", "Native")>>
    /\ pc[VerifierTask] = "idle"
    /\ result[VerifierTask] # "none"

\* C2: the builder of one BuildOnAccess is invoked at most once over all calls
\* of all clones, and exactly once as soon as one call dispatched to Native has
\* been through get_mut; two calls racing on the first Native dispatch invoke it
\* once between them.
C2_BuilderAtMostOnce ==
    \A s \in Selectors :
        /\ builderCalls[s] <= 1
        /\ built[s] <= builderCalls[s]
        /\ lazy[s].tag = "Initialized" => builderCalls[s] = 1
        /\ \A t \in Tasks : (Sel(t) = s /\ PastFirstMatch(t)) => builderCalls[s] = 1

\* two clones raced on the first Native dispatch and both got through get_mut
C2_Witness ==
    \E t1, t2 \in Producers :
        /\ t1 # t2
        /\ log["production"] = <<Entry("present", "Native"), Entry("present", "Native")>>
        /\ pc[t1] = "idle" /\ mode[t1] = "Native" /\ used[t1] = 1
        /\ pc[t2] = "native" /\ used[t2] = 1
        /\ builderCalls["production"] = 1

\* C3: a caller inspecting the BuildOnAccess (under the lock, for the production
\* selector) finds it Uninitialized with its builder present or Initialized,
\* never with the builder taken and no value stored; all Native dispatches use
\* the one built instance.
C3_NoHalfBuiltObserved ==
    /\ \A t \in Tasks :
          pc[t] = "get_mut" =>
              \/ lazy[Sel(t)] = Uninitialized(TRUE)
              \/ lazy[Sel(t)].tag = "Initialized"
    /\ \A t \in Tasks : used[t] # 0 => used[t] = 1

\* C4: after the builder has panicked the BuildOnAccess is Uninitialized with
\* its builder intact and the lock is released, so that a later Native dispatch
\* can build again.
C4_FailedBuildKeepsBuilder ==
    \A t \in Tasks :
        pc[t] = "panicked" =>
            /\ lazy[Sel(t)] = Uninitialized(TRUE)
            /\ t \notin auraHolder

\* C5: a call whose probe fails is dispatched to Bootstrap and does not panic;
\* the fallback is for that call only: a later call whose probe succeeds is
\* dispatched according to its own probe result.
C5_ProbeFailureFallsBack ==
    /\ \A t \in Tasks :
          probe[t] = "error" => mode[t] = "Bootstrap" /\ pc[t] # "panicked"
    /\ \A s \in Selectors : \A i, j \in 1..Len(log[s]) :
          (i < j /\ log[s][i].probe = "error" /\ log[s][j].probe # "error")
              => log[s][j].mode =
                    IF log[s][j].probe = "present" THEN "Native" ELSE "Bootstrap"

\* a probe failed, the call completed on Bootstrap, and the next call of the
\* selector, with the capability reported, went to Native
C5_Witness ==
    \E t1, t2 \in Producers :
        /\ log["production"] = <<Entry("error", "Bootstrap"), Entry("present", "Native")>>
        /\ pc[t1] = "idle" /\ probe[t1] = "error" /\ result[t1] # "none"
        /\ pc[t2] = "native" /\ probe[t2] = "present"

\* C6: a call whose probe failed reports a failure for that block, never a
\* successful result.
C6_ProbeFailureReported ==
    \A t \in Tasks :
        (pc[t] = "idle" /\ probe[t] = "error") => result[t] = "fail"

\* C7: a step of a call whose probe failed or reported the capability absent
\* leaves the BuildOnAccess as it is, its builder not invoked.
C7_BootstrapPathLeavesLazy ==
    [][\A t \in Tasks :
          (pc'[t] # pc[t] /\ probe'[t] \in {"absent", "error"})
              => /\ lazy' = lazy
                 /\ builderCalls' = builderCalls
                 /\ built' = built]_vars

\* Bootstrap calls have completed on a selector whose strategy is built and on
\* one whose strategy is not
C7_Witness ==
    \E t1, t2 \in Tasks :
        /\ pc[t1] = "idle" /\ mode[t1] = "Bootstrap" /\ result[t1] # "none"
        /\ lazy[Sel(t1)] = Initialized(1)
        /\ pc[t2] = "idle" /\ mode[t2] = "Bootstrap" /\ result[t2] # "none"
        /\ lazy[Sel(t2)] = Uninitialized(TRUE)
        /\ builderCalls[Sel(t2)] = 0

\* C8 as stated: once a call of a selector was dispatched to Native, no later
\* call of that selector is dispatched to Bootstrap.
C8_NeverBackToBootstrap ==
    \A s \in Selectors : \A i, j \in 1..Len(log[s]) :
        (i < j /\ log[s][i].mode = "Native") => log[s][j].mode # "Bootstrap"

\* C8, amended: after a Native dispatch, a later call of the selector is
\* dispatched to Bootstrap exactly when its own probe reports the capability
\* absent or fails.
C8_BackOnlyWithoutCapability ==
    \A s \in Selectors : \A i, j \in 1..Len(log[s]) :
        (i < j /\ log[s][i].mode = "Native")
            => (log[s][j].mode = "Bootstrap" <=> log[s][j].probe # "present")

\* a Native dispatch followed by a Bootstrap dispatch and again a Native one
C8_Witness ==
    \E s \in Selectors :
        /\ Len(log[s]) = 3
        /\ log[s][1].mode = "Native"
        /\ log[s][2].mode = "Bootstrap"
        /\ log[s][3].mode = "Native"

\* C9: the strategy of every call is decided by that call's own probe outcome
\* alone, also once the Native strategy is materialized: no earlier probe
\* result and no state of the BuildOnAccess enters the decision.
C9_NoCachedDecision ==
    \A s \in Selectors : \A i \in 1..Len(log[s]) :
        /\ log[s][i].probe = "present" => log[s][i].mode = "Native"
        /\ log[s][i].probe \in {"absent", "error"} => log[s][i].mode = "Bootstrap"

\* with the Native strategy materialized and used, a call on a parent without
\* the capability is running on Bootstrap
C9_Witness ==
    \E t \in Tasks :
        /\ lazy[Sel(t)].tag = "Initialized"
        /\ log[Sel(t)] = <<Entry("present", "Native"), Entry("absent", "Bootstrap")>>
        /\ pc[t] = "bootstrap"
        /\ probe[t] = "absent"

(* ------------------------- resolver properties ------------------------ *)

\* C10: for every CurrencyId and every local parachain id, converting the
\* CurrencyId to its MultiLocation (parents 1, [Parachain(self id), TEER key])
\* and that location back yields Some of the same CurrencyId.
C10_RoundTrip ==
    xOp = "round_trip" =>
        /\ xLoc = Some(MultiLocation(1, <<Parachain(selfParaId), TEER_GENERAL_KEY>>))
        /\ xCur = xId
        /\ xCur # None

\* the round trip was made on a chain that is not the shell runtime's para id
C10_Witness ==
    /\ xOp = "round_trip"
    /\ selfParaId = IntegriteeKsmParaId
    /\ xId = Some("TEER")
    /\ xCur = Some("TEER")

\* a Parachain junction of another chain is somewhere in the location
HasForeignParachain(location) ==
    \E i \in 1..Len(location.interior) :
        /\ location.interior[i].kind = "Parachain"
        /\ location.interior[i].id # selfParaId

\* C11: a location with a Parachain junction whose id is not the local chain's
\* converts to None, also when its key is the TEER key.
C11_ForeignParachainRejected ==
    (xOp = "to_currency" /\ HasForeignParachain(xLoc[1])) => xCur = None

\* another chain's (1, [Parachain(other), TEER key]) was converted
C11_Witness ==
    /\ xOp = "to_currency"
    /\ selfParaId = ShellRuntimeParaId
    /\ xLoc = Some(MultiLocation(1, <<Parachain(IntegriteeKsmParaId), TEER_GENERAL_KEY>>))
    /\ xCur = None

\* the two locations convert(location) accepts
RelativeTeer == MultiLocation(1, <<Parachain(selfParaId), TEER_GENERAL_KEY>>)

LocalTeer == MultiLocation(0, <<TEER_GENERAL_KEY>>)

\* C12: convert(location) is Some(TEER) for (1, [Parachain(self id), TEER key])
\* and for (0, [TEER key]), and None for every other location.
C12_ExactlyTwoShapes ==
    xOp = "to_currency" =>
        IF xLoc[1] \in {RelativeTeer, LocalTeer}
        THEN xCur = Some("TEER")
        ELSE xCur = None

\* the local-only form was accepted
C12_Witness ==
    /\ xOp = "to_currency"
    /\ xLoc = Some(LocalTeer)
    /\ xCur = Some("TEER")

\* C13: convert(asset) is None for an asset with an abstract id, and for a
\* concrete id it is what convert(location) gives for the id's location,
\* whatever the asset's fungibility and amount.
C13_AssetDelegatesToLocation ==
    xOp = "asset_to_currency" =>
        LET asset == xAsset[1]
        IN  IF asset.id.kind = "Abstract"
            THEN xCur = None
            ELSE /\ xCur = LocationToCurrencyId(asset.id.location)
                 /\ xCur = Some("TEER") <=> asset.id.location \in {RelativeTeer, LocalTeer}

\* a non-fungible asset at the relative TEER location was converted to TEER
C13_Witness ==
    /\ xOp = "asset_to_currency"
    /\ xAsset = Some(MultiAsset(Concrete(RelativeTeer), NonFungible))
    /\ xCur = Some("TEER")

\* an asset addressed below the local chain, naming no chain
IsLocalForm(asset) ==
    /\ asset.id.kind = "Concrete"
    /\ asset.id.location.parents = 0
    /\ ~IsChainJunction(FirstInterior(asset.id.location))

\* what reserve returned for the asset it was given
ReserveCollapsesSelf ==
    xOp = "reserve" =>
        /\ RelativeReserve(xAsset[1]) = Some(SelfLocationAbsolute) => xRes = Some(Here)
        /\ IsLocalForm(xAsset[1]) => xRes = Some(Here)

\* C14: reserve(asset) is Some(here) when the asset's relative reserve is
\* (1, [Parachain(self id)]), as it is for an asset in the local form, and
\* the comparison applied again to a location reserve returned changes nothing.
C14_SelfReserveCanonical ==
    [][/\ ReserveCollapsesSelf'
       /\ (xOp = "reserve" /\ xOp' = "recanonicalized") => xRes' = xRes]_vars

\* the reserve of TEER at its relative location was resolved to here, and
\* stayed here when compared again
C14_Witness ==
    /\ xOp = "recanonicalized"
    /\ xAsset = Some(MultiAsset(Concrete(RelativeTeer), Fungible(1)))
    /\ xRes = Some(Here)

(* --------------------------- Barrier properties ----------------------- *)

\* the message holds a reserve transfer whose reserve or destination is the
\* parent
MatchesDenyList(message) ==
    \E i \in 1..Len(message) :
        /\ message[i].kind \in {"InitiateReserveWithdraw", "DepositReserveAsset",
                                "TransferReserveAsset"}
        /\ message[i].dest = ParentLocation

\* the message takes assets in and then buys execution with a limit that
\* covers max_weight, with nothing but ClearOrigin in between
PaysOwnWeight(message, max_weight) ==
    /\ Len(message) >= 2
    /\ message[1].kind \in {"WithdrawAsset", "ReserveAssetDeposited"}
    /\ \E i \in 2..Len(message) :
           /\ i <= 5
           /\ \A j \in 2..(i - 1) : message[j].kind = "ClearOrigin"
           /\ message[i].kind = "BuyExecution"
           /\ message[i].weight_limit.kind = "Limited"
           /\ AllGte(message[i].weight_limit.weight, max_weight)

\* the barriers run by the last call, in the order they ran
Ran == [i \in 1..Len(evaluation[1].trace) |-> evaluation[1].trace[i].barrier]

\* the barrier that returned Ok(()) last, None when the call returned Err(())
AdmittedBy ==
    IF evaluation[1].ok THEN Some(Ran[Len(Ran)]) ELSE None

\* C15: a message with a reserve transfer to the parent is denied from every
\* origin and with every weight credit, also when it buys its own execution,
\* and no barrier of the tuple is asked about it.
C15_DenyListFirst ==
    (evaluation # None /\ MatchesDenyList(evaluation[1].message)) =>
        /\ ~evaluation[1].ok
        /\ Ran = <<"DenyReserveTransferToRelayChain">>

\* a message that pays for itself and deposits to the relay chain was denied
C15_Witness ==
    /\ evaluation # None
    /\ evaluation[1].message =
           <<Plain("WithdrawAsset"), BuyExecution(Unlimited),
             DepositReserveAsset(ParentLocation)>>
    /\ evaluation[1].credit_before = Times(UnitWeightCost, MaxCredit)
    /\ ~evaluation[1].ok

\* C16: with no weight credit, a message that buys execution for its own
\* weight and has no reserve transfer to the parent is admitted by
\* AllowTopLevelPaidExecutionFrom, and the weight credit is what it was.
C16_PaidExecutionLeavesCredit ==
    (/\ evaluation # None
     /\ evaluation[1].credit_before = Weight(0, 0)
     /\ PaysOwnWeight(evaluation[1].message, evaluation[1].max_weight)
     /\ ~MatchesDenyList(evaluation[1].message)) =>
        /\ evaluation[1].ok
        /\ AdmittedBy = Some("AllowTopLevelPaidExecutionFrom")
        /\ weightCredit = evaluation[1].credit_before

\* a paying message from a sibling was admitted with no credit at hand
C16_Witness ==
    /\ evaluation # None
    /\ evaluation[1].origin = Sibling
    /\ evaluation[1].message =
           <<Plain("ReserveAssetDeposited"), Plain("ClearOrigin"),
             BuyExecution(Limited(Times(UnitWeightCost, MaxMessageLen + 1)))>>
    /\ evaluation[1].credit_before = Weight(0, 0)
    /\ evaluation[1].ok
    /\ weightCredit = Weight(0, 0)

\* the barriers of the tuple in the order the claim gives them
FallbackOrder ==
    <<"TakeWeightCredit", "AllowTopLevelPaidExecutionFrom",
      "AllowKnownQueryResponses", "AllowSubscriptionsFrom">>

\* the arguments the last call was made with
Before ==
    Context(evaluation[1].origin, evaluation[1].message, evaluation[1].max_weight,
            evaluation[1].credit_before, evaluation[1].queries_before)

\* does barrier k of the tuple, asked alone about the arguments of the last
\* call, return Ok(())
Matches(k) ==
    CASE k = 1 -> TakeWeightCredit(Before).ok
      [] k = 2 -> AllowTopLevelPaidExecutionFrom(Before).ok
      [] k = 3 -> AllowKnownQueryResponses(Before).ok
      [] k = 4 -> AllowSubscriptionsFrom(Before).ok

\* C17: for a message without a reserve transfer to the parent the barriers
\* of the tuple are asked in the order TakeWeightCredit,
\* AllowTopLevelPaidExecutionFrom, AllowKnownQueryResponses,
\* AllowSubscriptionsFrom; the first that matches admits the message and the
\* later ones are not asked; when none matches the message is denied.
C17_FirstMatchWins ==
    (evaluation # None /\ ~MatchesDenyList(evaluation[1].message)) =>
        LET matching == {k \in 1..4 : Matches(k)}
        IN  IF matching = {}
            THEN /\ ~evaluation[1].ok
                 /\ Ran = <<"DenyReserveTransferToRelayChain">> \o FallbackOrder
            ELSE LET first == CHOOSE k \in matching : \A j \in matching : k <= j
                 IN  /\ evaluation[1].ok
                     /\ Ran = <<"DenyReserveTransferToRelayChain">>
                                  \o SubSeq(FallbackOrder, 1, first)
                     /\ \A i \in 1..Len(Ran) :
                            evaluation[1].trace[i].ok <=> i \in {1, Len(Ran)}

\* a message that pays for itself was admitted on credit, and
\* AllowTopLevelPaidExecutionFrom was not asked
C17_Witness ==
    /\ evaluation # None
    /\ evaluation[1].message = <<Plain("WithdrawAsset"), BuyExecution(Unlimited)>>
    /\ evaluation[1].credit_before = Times(UnitWeightCost, MaxCredit)
    /\ Matches(2)
    /\ evaluation[1].ok
    /\ Ran = <<"DenyReserveTransferToRelayChain", "TakeWeightCredit">>

\* a barrier that returned Err(()) left the credit, the queries and the
\* instructions as the call found them
FailedBarriersLeaveState ==
    \A i \in 1..Len(evaluation[1].trace) :
        ~evaluation[1].trace[i].ok =>
            /\ evaluation[1].trace[i].weight_credit = evaluation[1].credit_before
            /\ evaluation[1].trace[i].queries = evaluation[1].queries_before
            /\ evaluation[1].trace[i].instructions = evaluation[1].message

\* C18: a call of the Barrier leaves no effect of a barrier other than the
\* admitting one: every barrier that did not admit left the state it was
\* given, and after a denial the weight credit and the pending queries are
\* what they were before the call.
C18_NoEffectWithoutAdmission ==
    evaluation # None =>
        /\ FailedBarriersLeaveState
        /\ ~evaluation[1].ok =>
               /\ weightCredit = evaluation[1].credit_before
               /\ queries = evaluation[1].queries_before
               /\ evaluation[1].instructions = evaluation[1].message

\* a message heavier than the credit at hand went through all five barriers
\* and was denied, the credit and the query still there
C18_Witness ==
    /\ evaluation # None
    /\ evaluation[1].message =
           <<Plain("DepositAsset"), Plain("DepositAsset"), Plain("DepositAsset")>>
    /\ evaluation[1].credit_before = Times(UnitWeightCost, MaxCredit)
    /\ evaluation[1].queries_before = {Query(1, ParentLocation)}
    /\ Len(evaluation[1].trace) = 5
    /\ ~evaluation[1].ok
    /\ weightCredit = Times(UnitWeightCost, MaxCredit)
    /\ queries = {Query(1, ParentLocation)}

(* ------------------------- selector properties ------------------------ *)

\* the selector's own calls include one dispatched to Native
DispatchedNative(s) == \E i \in 1..Len(log[s]) : log[s][i].mode = "Native"

WaitsForBuild(t) ==
    /\ pc[t] = "lock_aura"
    /\ \E u \in Producers \ {t} : pc[u] = "building"

\* the call of t has the strategy the one builder call returned
ProceedsWithBuilt(t) ==
    /\ pc[t] = "native"
    /\ used[t] = 1
    /\ builderCalls["production"] = 1
    /\ built["production"] = 1

\* C20: a production call that needs the Native strategy while another call
\* builds it waits for the mutex and, when the builder returns, the running
\* call completes and the mutex is granted fairly, goes on with the strategy
\* that build returned: no second build is started and the call is not dropped.
C20_WaiterGetsBuiltStrategy ==
    \A t \in Producers :
        WaitsForBuild(t) ~>
            (ProceedsWithBuilt(t) \/ \E u \in Producers : pc[u] = "panicked")

\* a call waits for the mutex while the other clone's call is in the builder
C20_Witness ==
    /\ WaitsForBuild(2)
    /\ pc[1] = "building"
    /\ auraHolder = {1}
    /\ builderCalls["production"] = 1

\* TakeWeightCredit returned Ok(()) in the last call
TookCredit ==
    \E i \in 1..Len(evaluation[1].trace) :
        /\ evaluation[1].trace[i].barrier = "TakeWeightCredit"
        /\ evaluation[1].trace[i].ok

\* C21: when TakeWeightCredit admits a message the weight credit goes down by
\* the message's weight, one UnitWeightCost for each instruction, in both
\* components; it admits only when the credit covers that weight, and the
\* credit is never below zero, however many calls came before.
C21_CreditArithmetic ==
    evaluation # None =>
        LET before == evaluation[1].credit_before
            weight == Times(UnitWeightCost, Len(evaluation[1].message))
        IN  /\ weightCredit.ref_time >= 0
            /\ weightCredit.proof_size >= 0
            /\ TookCredit =>
                   /\ before.ref_time >= weight.ref_time
                   /\ before.proof_size >= weight.proof_size
                   /\ weightCredit.ref_time = before.ref_time - weight.ref_time
                   /\ weightCredit.proof_size = before.proof_size - weight.proof_size
            /\ ~TookCredit => weightCredit = before

\* the same one-instruction message was admitted on credit a second time and
\* used up the last UnitWeightCost of it
C21_Witness ==
    /\ evaluation # None
    /\ evaluation[1].again
    /\ Len(evaluation[1].message) = 1
    /\ TookCredit
    /\ evaluation[1].credit_before = UnitWeightCost
    /\ weightCredit = Weight(0, 0)

(* ------------------------- reserve properties ------------------------- *)

\* C22: reserve(asset) is the relative reserve itself whenever that is not
\* (1, [Parachain(self id)]), so a sibling parachain's location is never
\* replaced by here, and it is None when the relative reserve is None.
C22_OnlySelfCollapses ==
    xOp = "reserve" =>
        LET relative_reserve == RelativeReserve(xAsset[1])
        IN  /\ relative_reserve = None => xRes = None
            /\ (relative_reserve # None /\ relative_reserve[1] # SelfLocationAbsolute)
                   => xRes = relative_reserve

\* the reserve of a sibling's TEER-keyed asset is the sibling
C22_Witness ==
    /\ xOp = "reserve"
    /\ selfParaId = ShellRuntimeParaId
    /\ xAsset = Some(MultiAsset(Concrete(MultiLocation(1,
                     <<Parachain(IntegriteeKsmParaId), TEER_GENERAL_KEY>>)), Fungible(1)))
    /\ xRes = Some(MultiLocation(1, <<Parachain(IntegriteeKsmParaId)>>))

\* C23: an asset whose location converts to TEER, in the relative or in the
\* local form, has reserve here: the two resolvers agree that TEER is held
\* by the local chain.
C23_NativeReserveIsHere ==
    (xOp = "asset_and_reserve" /\ xCur = Some("TEER")) => xRes = Some(Here)

\* TEER in the local form was recognised and its reserve resolved to here
C23_Witness ==
    /\ xOp = "asset_and_reserve"
    /\ xAsset = Some(MultiAsset(Concrete(LocalTeer), Fungible(1000)))
    /\ xCur = Some("TEER")
    /\ xRes = Some(Here)

\* no call so far had its probe answer Ok(true)
NoProbePresent ==
    \A s \in Selectors : \A i \in 1..Len(log[s]) : log[s][i].probe # "present"

\* C24: a builder is invoked only after a probe of its selector answered
\* Ok(true); as long as every probe answered Ok(false) or failed both
\* BuildOnAccess values are Uninitialized with their builders, and every call
\* is in or through the Bootstrap branch.
C24_NoBuildWithoutProbe ==
    /\ \A s \in Selectors :
           builderCalls[s] > 0 => \E i \in 1..Len(log[s]) : log[s][i].probe = "present"
    /\ NoProbePresent =>
           /\ \A s \in Selectors :
                  /\ lazy[s] = Uninitialized(TRUE)
                  /\ builderCalls[s] = 0
                  /\ built[s] = 0
           /\ \A t \in Tasks :
                  /\ pc[t] \in {"idle", "lock_relay", "bootstrap"}
                  /\ mode[t] \in {"none", "Bootstrap"}
                  /\ used[t] = 0

\* on a chain whose latest runtime has AuraApi, calls through both selectors
\* saw it absent or failed to probe, and completed on Bootstrap
C24_Witness ==
    /\ NoProbePresent
    /\ hasAura[NumParents]
    /\ Len(log["production"]) > 0
    /\ \E i \in 1..Len(log["verification"]) : log["verification"][i].probe = "error"
    /\ \E i \in 1..Len(log["production"]) : log["production"][i].probe = "absent"
    /\ \A t \in Tasks : pc[t] = "idle"
    /\ result[VerifierTask] # "none"
    /\ lazy = [s \in Selectors |-> Uninitialized(TRUE)]

\* clones of the selector between the lazy access and the end of the Native
\* strategy's produce_candidate
InsideNative == {t \in Producers : pc[t] \in {"get_mut", "building", "native"}}

\* clones of the selector inside the Bootstrap strategy's produce_candidate
InsideBootstrap == {t \in Producers : pc[t] = "bootstrap"}

\* C25: across the clones of the production selector at most one call is
\* between the lazy access and the end of the Native strategy's
\* produce_candidate, and at most one is inside the Bootstrap strategy's;
\* each of them holds its strategy's lock for that whole stretch, whether or
\* not the Native value was already built.
C25_OneCallPerStrategy ==
    /\ Cardinality(InsideNative) <= 1
    /\ Cardinality(InsideBootstrap) <= 1
    /\ auraHolder = InsideNative
    /\ relayHolder = InsideBootstrap

\* the Native value was built by an earlier call; one clone is inside the
\* Native strategy with it while the other clone waits for the lock
C25_Witness ==
    /\ Len(log["production"]) >= 3
    /\ \A i \in 1..Len(log["production"]) : log["production"][i].mode = "Native"
    /\ lazy["production"].tag = "Initialized"
    /\ \E t, u \in Producers :
           /\ pc[t] = "native"
           /\ used[t] = lazy["production"].r
           /\ auraHolder = {t}
           /\ pc[u] = "lock_aura"

\* clones of the selector waiting in lock().await
WaitingForLock == {t \in Producers : pc[t] \in {"lock_aura", "lock_relay"}}

\* C26: a production call holds the lock of the branch it took and never the
\* other one, and holds none while it waits for one, so no holder of a lock
\* ever waits for a lock and the calls cannot deadlock; a call dispatched to
\* Bootstrap acquires the Bootstrap lock whenever that lock is free, whatever
\* another clone is doing under the Native lock.
C26_OneLockPerCall ==
    /\ auraHolder \cap relayHolder = {}
    /\ WaitingForLock \cap (auraHolder \cup relayHolder) = {}
    /\ \A t \in Producers :
           /\ t \in auraHolder => mode[t] = "Native"
           /\ t \in relayHolder => mode[t] = "Bootstrap"
           /\ pc[t] = "lock_aura" /\ auraHolder = {} => ENABLED LockAura(t)
           /\ pc[t] = "lock_relay" /\ relayHolder = {} => ENABLED LockRelay(t)

\* a clone dispatched to Bootstrap can take its lock while another clone is
\* building the Native strategy under the Native lock
C26_Witness ==
    \E t, u \in Producers :
        /\ pc[t] = "building"
        /\ auraHolder = {t}
        /\ pc[u] = "lock_relay"
        /\ mode[u] = "Bootstrap"
        /\ ENABLED LockRelay(u)

\* task t leaves the point of get_mut it is at
Leaves(t) == pc'[t] # pc[t]

\* one step of get_mut by task t, as the claim describes it
GetMutAsDescribed(t) ==
    LET s == Sel(t)
    IN  /\ pc[t] = "get_mut" /\ lazy[s].tag = "Initialized" /\ Leaves(t) =>
               /\ pc'[t] = "native"
               /\ used'[t] = lazy[s].r
               /\ UNCHANGED <<lazy, builderCalls, built>>
        /\ pc[t] = "get_mut" /\ lazy[s].tag = "Uninitialized" /\ lazy[s].f /\ Leaves(t) =>
               /\ pc'[t] = "building"
               /\ builderCalls'[s] = builderCalls[s] + 1
        /\ pc[t] = "building" /\ pc'[t] = "get_mut" =>
               /\ lazy'[s].tag = "Initialized"
               /\ builderCalls' = builderCalls
        /\ pc'[t] = "native" =>
               /\ lazy'[s].tag = "Initialized"
               /\ used'[t] = lazy'[s].r

\* C27: get_mut on an Initialized value returns it at once and invokes
\* nothing; on an Uninitialized value holding its builder it invokes the
\* builder once, stores the result as Initialized and returns it on the next
\* iteration; whenever it has returned the value is Initialized; and a call of
\* get_mut on either of these ends, by returning or, if the builder does not
\* return, by its panic.
C27_GetMutTerminates ==
    /\ [][\A t \in Producers : GetMutAsDescribed(t)]_vars
    /\ \A t \in Producers :
           (pc[t] = "get_mut" /\ (lazy["production"].tag = "Initialized" \/ lazy["production"].f))
               ~> (pc[t] = "native" \/ pc[t] = "panicked")

\* the first Native call has built the value and got it back from get_mut
C27_Witness ==
    \E t \in Producers :
        /\ pc[t] = "native"
        /\ Len(log["production"]) = 1
        /\ builderCalls["production"] = 1
        /\ built["production"] = 1
        /\ lazy["production"] = Initialized(1)
        /\ used[t] = 1

====
